---- MODULE Spec2Model ----
(***************************************************************************)
(* Model of src/gps/NMEAGPS.cpp: the NMEA GPS driver that drains the       *)
(* serial port into the TinyGPS++ sentence parser (whileIdle), forwards    *)
(* GPS time to the RTC (lookForTime) and commits a position fix            *)
(* (lookForLocation, hasLock, toDegInt).                                   *)
(*                                                                         *)
(* The two compile-time switches of the file are state that is chosen in   *)
(* Init and never changes:                                                 *)
(*   customFields = TINYGPS_OPTION_NO_CUSTOM_FIELDS is NOT defined        *)
(*   altitudeHAE  = GPS_ALTITUDE_HAE is defined                            *)
(***************************************************************************)
EXTENDS Integers, Sequences, FiniteSets, TLC

VARIABLES
    customFields,   \* #ifndef TINYGPS_OPTION_NO_CUSTOM_FIELDS branches are compiled in
    altitudeHAE,    \* #ifdef GPS_ALTITUDE_HAE branch is compiled in
    reader,         \* TinyGPSPlus reader: the parser's field cache
    serial,         \* bytes buffered by _serial_gps, oldest first
    pc,             \* "idle", or "drain" while whileIdle's loop is running
    isValid, c,     \* whileIdle's locals
    fixQual, fixType,
    latitude, longitude, altitude, geoidal_height,
    dop, heading, numSatellites, pos_timestamp,
    ret,            \* the last call that returned and its return value
    rtcCalls,       \* number of perhapsSetRTC(RTCQualityGPS, t) invocations
    timeOk,         \* number of lookForTime calls that returned true
    degIn, degOut,  \* argument and result of a direct toDegInt application
    encTrue,        \* history: encode has returned true in the running whileIdle call
    lastFix         \* history: the raw location of the fix accepted last, or NoFix

fixVars  == <<latitude, longitude, altitude, geoidal_height,
              dop, heading, numSatellites, pos_timestamp>>
lockVars == <<fixQual, fixType>>
cfgVars  == <<customFields, altitudeHAE>>
rtcVars  == <<rtcCalls, timeOk>>
degVars  == <<degIn, degOut>>
loopVars == <<isValid, c>>
histVars == <<encTrue, lastFix>>
vars     == <<cfgVars, reader, serial, pc, loopVars, lockVars, fixVars,
              ret, rtcVars, degVars, histVars>>

----------------------------------------------------------------------------
(* Bounds of the model *)

MaxBuf   == 2      \* capacity of the serial receive buffer
MaxCalls == 2      \* lookForTime successes that are counted
TickMs   == 150    \* milliseconds that pass in one Tick
AgeCap   == 300    \* ages are tracked up to this value ("this old or older")

(* Program constants *)

GPS_SOL_EXPIRY_MS == 300
ULONG_MAX         == 2147483647   \* age() of a datum that is not valid
                                  \* (stands for 4294967295, which exceeds
                                  \* the integers of the model checker)
degMult           == 10000000
COURSE_LIMIT      == 36000

----------------------------------------------------------------------------
(* Arithmetic helpers *)

\* C integer division: truncates toward zero
TruncDiv(a, b) == IF a >= 0 THEN a \div b ELSE -((-a) \div b)

Min(a, b) == IF a < b THEN a ELSE b

----------------------------------------------------------------------------
(* Degree conversion *)

toDegInt_div10(d) ==
    LET r == d.deg * degMult + d.billionths \div 10
    IN  IF d.negative THEN r * (-1) ELSE r

toDegInt(d) ==
    LET r == d.deg * degMult + d.billionths \div 100
    IN  IF d.negative THEN r * (-1) ELSE r

----------------------------------------------------------------------------
(* Lock determination *)

hasLock_type3only(fq, ft) ==
    IF fq >= 1 /\ fq <= 5
    THEN (IF customFields THEN ft = 3 ELSE TRUE)
    ELSE FALSE

hasLock(fq, ft) ==
    IF fq >= 1 /\ fq <= 5
    THEN (IF customFields THEN (ft = 3 \/ ft = 0) ELSE TRUE)
    ELSE FALSE

----------------------------------------------------------------------------
(* TinyGPS++ field accessors used by the driver.  A datum of the parser    *)
(* carries valid, updated and the time since its last commit.              *)

Digits == <<"0", "1", "2", "3", "4", "5", "6", "7", "8", "9">>

IsDigit(ch) == \E i \in 1..10 : Digits[i] = ch

DigitVal(ch) == (CHOOSE i \in 1..10 : Digits[i] = ch) - 1

\* value of the leading run of digits of a term, 0 when there is none
RECURSIVE atolFrom(_, _, _)
atolFrom(term, i, acc) ==
    IF i <= Len(term) /\ IsDigit(term[i])
    THEN atolFrom(term, i + 1, acc * 10 + DigitVal(term[i]))
    ELSE acc

atoi(term) ==
    IF Len(term) > 0 /\ term[1] = "-"
    THEN -atolFrom(term, 2, 0)
    ELSE atolFrom(term, 1, 0)

RECURSIVE skipDigits(_, _)
skipDigits(term, i) ==
    IF i <= Len(term) /\ IsDigit(term[i]) THEN skipDigits(term, i + 1) ELSE i

\* TinyGPSPlus::parseDecimal: a decimal term in hundredths
parseDecimal(term) ==
    LET negative == Len(term) > 0 /\ term[1] = "-"
        start    == IF negative THEN 2 ELSE 1
        whole    == 100 * atolFrom(term, start, 0)
        p        == skipDigits(term, start)
        frac     == IF p + 1 <= Len(term) /\ term[p] = "." /\ IsDigit(term[p + 1])
                    THEN 10 * DigitVal(term[p + 1])
                         + (IF p + 2 <= Len(term) /\ IsDigit(term[p + 2])
                            THEN DigitVal(term[p + 2]) ELSE 0)
                    ELSE 0
    IN  IF negative THEN -(whole + frac) ELSE whole + frac

\* TinyGPSDatum::age(): "also includes isValid() test"
age(d) == IF d.valid THEN d.age ELSE ULONG_MAX

\* meters() of a value the parser keeps in hundredths, converted to an
\* integer the way the assignment to an int32 member does
meters(centi) == TruncDiv(centi, 100)

----------------------------------------------------------------------------
(* Calendar composition *)

\* struct tm as filled in by lookForTime and lookForLocation
composeTm(ti, d) ==
    [tm_sec |-> ti.second, tm_min |-> ti.minute, tm_hour |-> ti.hour,
     tm_mday |-> d.day, tm_mon |-> d.month - 1, tm_year |-> d.year - 1900,
     tm_isdst |-> FALSE]

\* days since 1970-01-01 of a proleptic Gregorian date
daysFromCivil(y, m, d) ==
    LET yy  == IF m <= 2 THEN y - 1 ELSE y
        era == yy \div 400
        yoe == yy - era * 400
        mp  == IF m > 2 THEN m - 3 ELSE m + 9
        doy == (153 * mp + 2) \div 5 + d - 1
        doe == yoe * 365 + yoe \div 4 - yoe \div 100 + doy
    IN  era * 146097 + doe - 719468

\* mktime() with the device's UTC time zone
mktime(t) ==
    daysFromCivil(t.tm_year + 1900, t.tm_mon + 1, t.tm_mday) * 86400
    + t.tm_hour * 3600 + t.tm_min * 60 + t.tm_sec

----------------------------------------------------------------------------
(* What the byte stream can make the parser decode.  encode(c) returns     *)
(* true for the byte that completes a sentence with a good checksum and    *)
(* commits that sentence's fields; every other byte returns false and      *)
(* commits nothing.                                                        *)

Bytes == {"x", "end"}     \* a byte inside a sentence / one completing it

LatN    == [deg |-> 37,  billionths |-> 520825000, negative |-> FALSE]
LngW    == [deg |-> 122, billionths |-> 309162000, negative |-> TRUE]
LatS    == [deg |-> 1,   billionths |-> 199,       negative |-> TRUE]
LatTiny == [deg |-> 0,   billionths |-> 99,        negative |-> FALSE]
LngZero == [deg |-> 0,   billionths |-> 0,         negative |-> FALSE]

T1 == [hour |-> 12, minute |-> 34, second |-> 56]
T2 == [hour |-> 23, minute |-> 59, second |-> 59]
D1 == [year |-> 2021, month |-> 3, day |-> 14]
D2 == [year |-> 2020, month |-> 2, day |-> 29]

\* GGA: fix quality, position, satellites, HDOP (hundredths), altitude and
\* geoid separation (hundredths of a meter), time of day
GGA_fix ==
    [type |-> "GGA", quality |-> 1, lat |-> LatN, lng |-> LngW, hdop |-> 150,
     sats |-> 7, alt |-> 15870, geoid |-> -2550, time |-> T1]
GGA_zeroLat  == [GGA_fix EXCEPT !.lat = LatTiny]
GGA_zeroHdop == [GGA_fix EXCEPT !.hdop = 0]
GGA_south ==
    [type |-> "GGA", quality |-> 5, lat |-> LatS, lng |-> LngZero, hdop |-> 1,
     sats |-> 12, alt |-> -150, geoid |-> 1000, time |-> T2]
GGA_noFix ==
    [type |-> "GGA", quality |-> 0, lat |-> LngZero, lng |-> LngZero, hdop |-> 0,
     sats |-> 0, alt |-> 0, geoid |-> 0, time |-> T1]
GGA_estimated == [GGA_fix EXCEPT !.quality = 6]

\* RMC: status, position, course (hundredths of a degree), date, time
RMC_a ==
    [type |-> "RMC", active |-> TRUE, lat |-> LatN, lng |-> LngW,
     course |-> 35999, date |-> D1, time |-> T1]
RMC_b ==
    [type |-> "RMC", active |-> TRUE, lat |-> LatS, lng |-> LngZero,
     course |-> 36000, date |-> D2, time |-> T2]
RMC_void ==
    [type |-> "RMC", active |-> FALSE, lat |-> LngZero, lng |-> LngZero,
     course |-> 0, date |-> D1, time |-> T1]

\* GSA: the terms of field 2 (fix type) and field 15 (PDOP)
GSA_3d     == [type |-> "GSA", fixtype |-> <<"3">>, pdop |-> <<"2", ".", "1", "2">>]
GSA_2d     == [type |-> "GSA", fixtype |-> <<"2">>, pdop |-> <<"1", ".", "5">>]
GSA_noPdop == [type |-> "GSA", fixtype |-> <<"3">>, pdop |-> <<>>]
GSA_empty  == [type |-> "GSA", fixtype |-> <<>>,    pdop |-> <<"2", ".", "1", "2">>]

\* the sentences a receiver emits, per scenario
FeedBasic  == {GGA_fix, RMC_a, GSA_3d}
FeedGate   == {GGA_fix, GGA_zeroLat, GGA_zeroHdop, RMC_a, RMC_void, GSA_3d, GSA_noPdop}
FeedLock   == {GGA_fix, GGA_south, GGA_noFix, GGA_estimated, GSA_3d, GSA_2d, GSA_empty}
FeedCommit == {GGA_fix, GGA_south, RMC_a, RMC_b, GSA_3d}
FeedReject == {GGA_fix, GGA_zeroLat, GGA_zeroHdop, GGA_noFix, RMC_b, GSA_3d, GSA_noPdop}

\* the parser right after construction: nothing decoded yet
EmptyReader ==
    [fixQuality  |-> 0,
     location    |-> [valid |-> FALSE, updated |-> FALSE, age |-> 0,
                      lat |-> LngZero, lng |-> LngZero],
     time        |-> [valid |-> FALSE, age |-> 0, hour |-> 0, minute |-> 0, second |-> 0],
     date        |-> [valid |-> FALSE, age |-> 0, year |-> 2000, month |-> 0, day |-> 0],
     hdop        |-> 0,
     satellites  |-> [updated |-> FALSE, val |-> 0],
     course      |-> [valid |-> FALSE, updated |-> FALSE, val |-> 0],
     altitude    |-> 0,
     geoidHeight |-> 0,
     gsafixtype  |-> [valid |-> FALSE, age |-> 0, term |-> <<>>],
     gsapdop     |-> <<>>]

commitTime(t) ==
    [valid |-> TRUE, age |-> 0, hour |-> t.hour, minute |-> t.minute, second |-> t.second]

commitDate(d) ==
    [valid |-> TRUE, age |-> 0, year |-> d.year, month |-> d.month, day |-> d.day]

commitLocation(s) ==
    [valid |-> TRUE, updated |-> TRUE, age |-> 0, lat |-> s.lat, lng |-> s.lng]

\* the parser's field cache after the sentence s has been completed
commit(r, s) ==
    IF s.type = "GGA" THEN
        [r EXCEPT !.fixQuality  = s.quality,
                  !.time        = commitTime(s.time),
                  !.location    = IF s.quality > 0 THEN commitLocation(s) ELSE @,
                  !.altitude    = IF s.quality > 0 THEN s.alt ELSE @,
                  !.geoidHeight = IF s.quality > 0 THEN s.geoid ELSE @,
                  !.satellites  = [updated |-> TRUE, val |-> s.sats],
                  !.hdop        = s.hdop]
    ELSE IF s.type = "RMC" THEN
        [r EXCEPT !.date     = commitDate(s.date),
                  !.time     = commitTime(s.time),
                  !.location = IF s.active THEN commitLocation(s) ELSE @,
                  !.course   = IF s.active
                               THEN [valid |-> TRUE, updated |-> TRUE, val |-> s.course]
                               ELSE @]
    ELSE IF customFields THEN
        \* gsafixtype.begin(reader, "GNGSA", 2); gsapdop.begin(reader, "GNGSA", 15)
        [r EXCEPT !.gsafixtype = [valid |-> TRUE, age |-> 0, term |-> s.fixtype],
                  !.gsapdop    = s.pdop]
    ELSE r   \* no custom field is bound: the sentence is checked and dropped

\* the time since every commit grows by ms
older(d, ms) == IF d.valid THEN [d EXCEPT !.age = Min(@ + ms, AgeCap)] ELSE d

elapse(r, ms) ==
    [r EXCEPT !.location   = older(@, ms),
              !.time       = older(@, ms),
              !.date       = older(@, ms),
              !.gsafixtype = older(@, ms)]

----------------------------------------------------------------------------
(* The gates and computations of lookForLocation and lookForTime *)

captureFixType_whenFresh(r, old) ==
    IF customFields /\ age(r.gsafixtype) < GPS_SOL_EXPIRY_MS
    THEN atoi(r.gsafixtype.term)
    ELSE old

\* fixType as captured on entry: atoi(gsafixtype.value()), "will set to
\* zero if no data"; left alone when no custom field is compiled in
captureFixType(r, old) == IF customFields THEN atoi(r.gsafixtype.term) ELSE old

solutionFresh_le(r) ==
    /\ age(r.location) <= GPS_SOL_EXPIRY_MS
    /\ (customFields => age(r.gsafixtype) <= GPS_SOL_EXPIRY_MS)
    /\ age(r.time) <= GPS_SOL_EXPIRY_MS
    /\ age(r.date) <= GPS_SOL_EXPIRY_MS

\* "check if a complete GPS solution set is available for reading"
solutionFresh(r) ==
    /\ age(r.location) < GPS_SOL_EXPIRY_MS
    /\ (customFields => age(r.gsafixtype) < GPS_SOL_EXPIRY_MS)
    /\ age(r.time) < GPS_SOL_EXPIRY_MS
    /\ age(r.date) < GPS_SOL_EXPIRY_MS

newPoint_always(r) == TRUE

\* "Is this a new point or are we re-reading the previous one?"
newPoint(r) == r.location.updated

bogusPosition_lng(loc) == toDegInt(loc.lng) = 0

bogusPosition_never(loc) == FALSE

bogusPosition_either(loc) == toDegInt(loc.lat) = 0 \/ toDegInt(loc.lng) = 0

\* "Some GPSes (Air530) seem to send a zero longitude when the current fix is bogus"
bogusPosition(loc) == toDegInt(loc.lat) = 0

computeDop_round(r) ==
    IF customFields
    THEN parseDecimal(r.gsapdop)
    ELSE (141 * r.hdop + 50) \div 100

\* dop as assigned before the "dop == 0" test.  Without custom fields it
\* is the double 1.41 * hdop converted to uint32_t, which drops the
\* fraction; for the hdop values of the model that is (141 * hdop) / 100.
computeDop(r) ==
    IF customFields
    THEN parseDecimal(r.gsapdop)
    ELSE (141 * r.hdop) \div 100

computeAltitude_msl(r) == meters(r.altitude)

\* altitude as assigned in either build
computeAltitude(r) ==
    IF altitudeHAE
    THEN TruncDiv(r.altitude + 100 * meters(r.geoidHeight), 100)
    ELSE meters(r.altitude)

courseSane_le(cv) == cv <= COURSE_LIMIT

\* "sanity check" of the course value
courseSane(cv) == cv < COURSE_LIMIT

\* degrees * 10^-2 scaled to degrees * 10^-5
scaleHeading(cv) == cv * 1000

commitHeading_unchecked(r, old) ==
    IF r.course.updated /\ r.course.valid
    THEN scaleHeading(r.course.val)
    ELSE old

\* heading after the course block: set only from an updated, valid, sane course
commitHeading(r, old) ==
    IF r.course.updated /\ r.course.valid /\ courseSane(r.course.val)
    THEN scaleHeading(r.course.val)
    ELSE old

\* "Nice to have, if available": setNumSatellites only when updated
commitSatellites(r, old) ==
    IF r.satellites.updated THEN r.satellites.val ELSE old

\* the step at which a lookForLocation call over parser state r leaves,
\* with fix quality q and fix type ty as captured on entry
outcome(r, q, ty) ==
    IF ~hasLock(q, ty)                THEN "NoLock"
    ELSE IF ~solutionFresh(r)         THEN "StaleData"
    ELSE IF ~newPoint(r)              THEN "NoNewData"
    ELSE IF bogusPosition(r.location) THEN "BogusZeroPosition"
    ELSE IF computeDop(r) = 0         THEN "IncompleteDilutionOfPrecision"
    ELSE "Accepted"

readsLocation_acceptedOnly(step) == step = "Accepted"

\* "Start reading the data": the calls that reach reader.location.value()
readsLocation(step) ==
    step \in {"BogusZeroPosition", "IncompleteDilutionOfPrecision", "Accepted"}

timeReady_fresh(r) ==
    /\ r.time.valid /\ r.date.valid
    /\ age(r.time) < GPS_SOL_EXPIRY_MS /\ age(r.date) < GPS_SOL_EXPIRY_MS

\* lookForTime's condition: "we don't check for updated"
timeReady(r) == r.time.valid /\ r.date.valid

lookForTimeResult_true(r) == TRUE

\* lookForTime's return value
lookForTimeResult(r) == IF timeReady(r) THEN TRUE ELSE FALSE

----------------------------------------------------------------------------
(* Initial state *)

ZeroDeg == [deg |-> 0, billionths |-> 0, negative |-> FALSE]

\* no lookForLocation call has returned true yet
NoFix == [accepted |-> FALSE]

\* the members of the GPS base class before any fix
ZeroFixState ==
    /\ fixQual = 0 /\ fixType = 0
    /\ latitude = 0 /\ longitude = 0 /\ altitude = 0 /\ geoidal_height = 0
    /\ dop = 0 /\ heading = 0 /\ numSatellites = 0 /\ pos_timestamp = 0

InitDriver ==
    /\ customFields \in BOOLEAN
    /\ altitudeHAE \in BOOLEAN
    /\ reader = EmptyReader
    /\ serial = <<>>
    /\ pc = "idle"
    /\ isValid = FALSE
    /\ c = "none"
    /\ encTrue = FALSE
    /\ lastFix = NoFix
    /\ ZeroFixState
    /\ ret = [op |-> "none", val |-> FALSE]
    /\ rtcCalls = 0
    /\ timeOk = 0

Init ==
    /\ InitDriver
    /\ degIn = ZeroDeg
    /\ degOut = 0

----------------------------------------------------------------------------
(* Environment: time passes, the UART receives *)

Tick ==
    /\ reader' = elapse(reader, TickMs)
    /\ UNCHANGED <<cfgVars, serial, pc, loopVars, lockVars, fixVars, ret, rtcVars, degVars, histVars>>

Receive ==
    /\ Len(serial) < MaxBuf
    /\ \E b \in Bytes : serial' = Append(serial, b)
    /\ UNCHANGED <<cfgVars, reader, pc, loopVars, lockVars, fixVars, ret, rtcVars, degVars, histVars>>

----------------------------------------------------------------------------
(* whileIdle: the drain loop, one iteration per step *)

\* _serial_gps->available(), read(): the oldest buffered byte is taken out
available(buf) == Len(buf)

serialRead_newest(buf) == buf[Len(buf)]

serialRead(buf) == Head(buf)

serialRest_peek(buf) == buf

serialRest(buf) == Tail(buf)

\* encode(c) returns true for the byte that completes a good sentence
encodeResult(ch) == ch = "end"

accumulate_assign(acc, r) == r

\* isValid |= ...
accumulate(acc, r) == acc \/ r

WhileIdleEnter ==
    /\ pc = "idle"
    /\ pc' = "drain"
    /\ isValid' = FALSE
    /\ c' = "none"
    /\ encTrue' = FALSE
    /\ UNCHANGED <<cfgVars, reader, serial, lockVars, fixVars, ret, rtcVars, degVars, lastFix>>

\* int c = _serial_gps->read(); isValid |= reader.encode(c);
WhileIdleRead(feed) ==
    /\ pc = "drain"
    /\ available(serial) > 0
    /\ c' = serialRead(serial)
    /\ serial' = serialRest(serial)
    /\ \/ /\ encodeResult(c')
          /\ \E s \in feed : reader' = commit(reader, s)
       \/ /\ ~encodeResult(c')
          /\ reader' = reader
    /\ isValid' = accumulate(isValid, encodeResult(c'))
    /\ encTrue' = (encTrue \/ encodeResult(c'))
    /\ UNCHANGED <<cfgVars, pc, lockVars, fixVars, ret, rtcVars, degVars, lastFix>>

WhileIdleReturn ==
    /\ pc = "drain"
    /\ ~(available(serial) > 0)
    /\ ret' = [op |-> "whileIdle", val |-> isValid]
    /\ pc' = "idle"
    /\ isValid' = FALSE
    /\ c' = "none"
    /\ encTrue' = FALSE
    /\ UNCHANGED <<cfgVars, reader, serial, lockVars, fixVars, rtcVars, degVars, lastFix>>

----------------------------------------------------------------------------
(* lookForTime *)

LookForTime ==
    /\ pc = "idle"
    /\ timeOk < MaxCalls
    /\ IF timeReady(reader)
       THEN \* perhapsSetRTC(RTCQualityGPS, t)
            rtcCalls' = rtcCalls + 1
       ELSE rtcCalls' = rtcCalls
    /\ ret' = [op |-> "lookForTime", val |-> lookForTimeResult(reader)]
    /\ timeOk' = IF ret'.val THEN timeOk + 1 ELSE timeOk
    /\ UNCHANGED <<cfgVars, reader, serial, pc, loopVars, lockVars, fixVars, degVars, histVars>>

----------------------------------------------------------------------------
(* hasLock as called from outside *)

CallHasLock ==
    /\ pc = "idle"
    /\ ret' = [op |-> "hasLock", val |-> hasLock(fixQual, fixType)]
    /\ UNCHANGED <<cfgVars, reader, serial, pc, loopVars, lockVars, fixVars, rtcVars, degVars, histVars>>

----------------------------------------------------------------------------
(* lookForLocation *)

LookForLocation ==
    /\ pc = "idle"
    /\ LET q    == reader.fixQuality
           ty   == captureFixType(reader, fixType)
           loc  == reader.location
           step == outcome(reader, q, ty)
           read == readsLocation(step)
       IN  /\ fixQual' = q
           /\ fixType' = ty
           \* location.value(), satellites.value() and course.value() clear "updated"
           /\ reader' =
                IF step = "Accepted"
                THEN [reader EXCEPT !.location.updated = FALSE,
                                    !.satellites.updated = FALSE,
                                    !.course.updated = IF @ /\ reader.course.valid THEN FALSE ELSE @]
                ELSE IF read
                THEN [reader EXCEPT !.location.updated = FALSE]
                ELSE reader
           /\ dop' = IF step \in {"IncompleteDilutionOfPrecision", "Accepted"}
                     THEN computeDop(reader) ELSE dop
           /\ IF step = "Accepted"
              THEN /\ latitude' = toDegInt(loc.lat)
                   /\ longitude' = toDegInt(loc.lng)
                   /\ geoidal_height' = meters(reader.geoidHeight)
                   /\ altitude' = computeAltitude(reader)
                   /\ pos_timestamp' = mktime(composeTm(reader.time, reader.date))
                   /\ numSatellites' = commitSatellites(reader, numSatellites)
                   /\ heading' = commitHeading(reader, heading)
              ELSE UNCHANGED <<latitude, longitude, geoidal_height, altitude,
                               pos_timestamp, numSatellites, heading>>
           /\ ret' = [op |-> "lookForLocation", val |-> (step = "Accepted")]
           /\ lastFix' = IF step = "Accepted"
                         THEN [accepted |-> TRUE, lat |-> loc.lat, lng |-> loc.lng]
                         ELSE lastFix
    /\ UNCHANGED <<cfgVars, serial, pc, loopVars, rtcVars, degVars, encTrue>>

----------------------------------------------------------------------------
(* The driver under the scenarios *)

WhileIdle(feed) ==
    \/ WhileIdleEnter
    \/ WhileIdleRead(feed)
    \/ WhileIdleReturn

\* every operation, both builds of each switch
Next ==
    \/ Tick
    \/ Receive
    \/ WhileIdle(FeedBasic)
    \/ LookForTime
    \/ CallHasLock
    \/ LookForLocation

Spec == Init /\ [][Next]_vars

\* the gates of lookForLocation
InitLoc == Init /\ altitudeHAE = FALSE

NextGate ==
    \/ Tick
    \/ Receive
    \/ WhileIdle(FeedGate)
    \/ LookForLocation

SpecGate == InitLoc /\ [][NextGate]_vars

\* what an accepted fix commits
NextCommit ==
    \/ Tick
    \/ Receive
    \/ WhileIdle(FeedCommit)
    \/ LookForLocation

SpecCommit == Init /\ [][NextCommit]_vars

\* the lock indicators
NextLock ==
    \/ Tick
    \/ Receive
    \/ WhileIdle(FeedLock)
    \/ LookForLocation
    \/ CallHasLock

SpecLock == InitLoc /\ [][NextLock]_vars

\* every way lookForLocation can reject
NextReject ==
    \/ Tick
    \/ Receive
    \/ WhileIdle(FeedReject)
    \/ LookForLocation

SpecReject == InitLoc /\ [][NextReject]_vars

\* the drain loop alone, the UART receiving at any moment
NextDrain ==
    \/ Tick
    \/ Receive
    \/ WhileIdle(FeedBasic)

SpecDrain == InitLoc /\ [][NextDrain]_vars

\* the same with the processor running the loop: an iteration or the
\* return that stays possible is eventually executed
SpecDrainFair ==
    /\ InitLoc
    /\ [][NextDrain]_vars
    /\ WF_vars(WhileIdleRead(FeedBasic))
    /\ WF_vars(WhileIdleReturn)

----------------------------------------------------------------------------
(* toDegInt applied to RawDegrees values directly *)

DegInputs ==
    [deg : {0, 1, 37, 122, 180},
     billionths : {0, 99, 100, 199, 520825000, 999999999},
     negative : BOOLEAN]

Convert ==
    /\ \E d \in DegInputs :
          /\ degIn' = d
          /\ degOut' = toDegInt(d)
    /\ UNCHANGED <<cfgVars, reader, serial, pc, loopVars, lockVars, fixVars, ret, rtcVars, histVars>>

NextDeg == Convert

SpecDeg == Init /\ [][NextDeg]_vars

----------------------------------------------------------------------------
(* Properties *)

\* a lookForLocation step that returned true / false
Accepted == LookForLocation /\ ret'.val
Rejected == LookForLocation /\ ~ret'.val

\* C1: whenever lookForLocation returns true, the location age, the time
\* age, the date age and (with the GSA fields compiled in) the fix-type age
\* were all strictly below 300 ms at that call; a call made with any of
\* them at 300 ms or more returns false.
C1_AcceptedOnlyFresh ==
    [][Accepted =>
          /\ age(reader.location) < 300
          /\ age(reader.time) < 300
          /\ age(reader.date) < 300
          /\ (customFields => age(reader.gsafixtype) < 300)]_vars

\* a fix accepted with the GSA fields compiled in, its data not yet expired
C1_Witness ==
    /\ ret = [op |-> "lookForLocation", val |-> TRUE]
    /\ customFields
    /\ latitude # 0
    /\ age(reader.location) > 0 /\ age(reader.location) < 300
    /\ age(reader.gsafixtype) > 0 /\ age(reader.gsafixtype) < 300

\* C2: a lookForLocation call that returns false leaves latitude,
\* longitude, altitude, geoidal height, dilution of precision, heading,
\* satellite count and position timestamp as they were.
C2_RejectedKeepsFixState ==
    [][Rejected => UNCHANGED fixVars]_vars

\* C3: when the converted latitude of the location being read is 0,
\* lookForLocation returns false and leaves latitude, longitude, altitude,
\* geoidal height, dilution of precision, heading, satellite count and
\* position timestamp as they were.
C3_ZeroLatitudeRejected ==
    [][(LookForLocation /\ toDegInt(reader.location.lat) = 0) =>
          (~ret'.val /\ UNCHANGED fixVars)]_vars

\* a zero-latitude reading was read and dropped while an earlier fix is kept
C3_Witness ==
    /\ ret = [op |-> "lookForLocation", val |-> FALSE]
    /\ reader.location.valid /\ ~reader.location.updated
    /\ age(reader.location) < 300
    /\ reader.location.lat = LatTiny
    /\ latitude = 375208250 /\ longitude = -1223091620 /\ dop # 0

\* C4: hasLock returns true exactly when fixQual is in 1..5 and, with the
\* GSA fields compiled in, fixType is 3 or 0; without them fixQual alone
\* decides.
C4_HasLock ==
    ret.op = "hasLock" =>
        /\ ret.val = (fixQual \in 1..5 /\ (customFields => fixType \in {0, 3}))
        /\ (customFields /\ fixQual = 0 /\ fixType = 3 => ret.val = FALSE)
        /\ (customFields /\ fixQual = 1 /\ fixType = 3 => ret.val = TRUE)
        /\ (customFields /\ fixQual = 1 /\ fixType = 2 => ret.val = FALSE)
        /\ (customFields /\ fixQual = 1 /\ fixType = 0 => ret.val = TRUE)
        /\ (~customFields => ret.val = (fixQual \in 1..5))

\* hasLock answered false for quality 1 with a 2D fix type
C4_Witness ==
    /\ ret = [op |-> "hasLock", val |-> FALSE]
    /\ customFields /\ fixQual = 1 /\ fixType = 2

\* C5: toDegInt(d) is deg * 10,000,000 + billionths / 100 (truncating),
\* negated when d is negative.
C5_ToDegInt ==
    degOut = IF degIn.negative
             THEN -(degIn.deg * 10000000 + degIn.billionths \div 100)
             ELSE degIn.deg * 10000000 + degIn.billionths \div 100

\* a negative value whose fraction is cut, converted
C5_Witness ==
    /\ degIn = [deg |-> 122, billionths |-> 999999999, negative |-> TRUE]
    /\ degOut = -1229999999

\* C6 as stated: without PDOP, an accepted fix stores round(1.41 * hdop).
C6_DopRounded ==
    [][(Accepted /\ ~customFields) =>
          dop' = (141 * reader.hdop + 50) \div 100]_vars

\* C6 amended: without PDOP, the dop that lookForLocation stores is
\* 1.41 * hdop with the fraction dropped (hdop 150 gives 211), and the call
\* returns false when that is 0.
C6_DopTruncated ==
    [][(LookForLocation /\ ~customFields) =>
          /\ (ret'.val => dop' = (141 * reader.hdop) \div 100 /\ dop' # 0)
          /\ ((141 * reader.hdop) \div 100 = 0 => ~ret'.val)]_vars

\* a fix accepted from hdop 1.50 without PDOP
C6_Witness ==
    /\ ret = [op |-> "lookForLocation", val |-> TRUE]
    /\ ~customFields
    /\ reader.hdop = 150 /\ dop = 211

\* C7 as stated: an accepted fix overwrites every field from the current
\* readings, heading and satellite count included.
C7_WholesaleOverwrite ==
    [][Accepted =>
          /\ latitude' = toDegInt(reader.location.lat)
          /\ longitude' = toDegInt(reader.location.lng)
          /\ geoidal_height' = meters(reader.geoidHeight)
          /\ altitude' = IF altitudeHAE
                         THEN TruncDiv(reader.altitude + 100 * meters(reader.geoidHeight), 100)
                         ELSE meters(reader.altitude)
          /\ dop' = computeDop(reader)
          /\ pos_timestamp' = mktime(composeTm(reader.time, reader.date))
          /\ numSatellites' = reader.satellites.val
          /\ heading' = reader.course.val * 1000]_vars

\* C7 amended: an accepted fix overwrites latitude, longitude, altitude,
\* geoidal height, dilution of precision and position timestamp from the
\* current readings; the satellite count is overwritten only when the
\* satellites field is updated and the heading only when the course field
\* is updated, valid and below 36000, and otherwise each keeps its value.
C7_CommitOnAccept ==
    [][Accepted =>
          /\ latitude' = toDegInt(reader.location.lat)
          /\ longitude' = toDegInt(reader.location.lng)
          /\ geoidal_height' = meters(reader.geoidHeight)
          /\ altitude' = IF altitudeHAE
                         THEN TruncDiv(reader.altitude + 100 * meters(reader.geoidHeight), 100)
                         ELSE meters(reader.altitude)
          /\ dop' = computeDop(reader)
          /\ pos_timestamp' = mktime(composeTm(reader.time, reader.date))
          /\ numSatellites' = IF reader.satellites.updated
                              THEN reader.satellites.val ELSE numSatellites
          /\ heading' = IF reader.course.updated /\ reader.course.valid
                           /\ reader.course.val < 36000
                        THEN reader.course.val * 1000 ELSE heading]_vars

\* a second fix was accepted, its course of 360.00 was read, and heading
\* still holds the value of the first
C7_Witness ==
    /\ ret = [op |-> "lookForLocation", val |-> TRUE]
    /\ latitude = -10000001 /\ longitude = 0
    /\ pos_timestamp = 1583020799
    /\ reader.course.val = 36000 /\ ~reader.course.updated
    /\ heading = 35999000

\* C8: in a call that passes all gates, an updated and valid course c sets
\* heading to c * 1000 when c < 36000 and leaves it when c >= 36000; a
\* course that is not updated or not valid leaves it too; the call
\* returns true in every one of these cases.
C8_HeadingBound ==
    [][(LookForLocation
        /\ outcome(reader, reader.fixQuality, captureFixType(reader, fixType)) = "Accepted") =>
          /\ ret'.val
          /\ heading' = IF reader.course.updated /\ reader.course.valid
                        THEN (IF reader.course.val < 36000
                              THEN reader.course.val * 1000 ELSE heading)
                        ELSE heading]_vars

\* a fix accepted with an updated course of 359.99
C8_Witness ==
    /\ ret = [op |-> "lookForLocation", val |-> TRUE]
    /\ reader.course.val = 35999 /\ ~reader.course.updated
    /\ heading = 35999000
    /\ pos_timestamp = 1615725296

\* C9: lookForTime returns true exactly when the time field and the date
\* field are both valid, whatever their ages.
C9_LookForTime ==
    [][LookForTime => (ret'.val = (reader.time.valid /\ reader.date.valid))]_vars

\* lookForTime has succeeded and the readings are past the 300 ms window
C9_Witness ==
    /\ ret = [op |-> "lookForTime", val |-> TRUE]
    /\ age(reader.time) >= 300 /\ age(reader.date) >= 300

\* C10: perhapsSetRTC is invoked once by each lookForTime call that returns
\* true, not by one that returns false, and by no other operation; the
\* number of invocations equals the number of successful lookForTime calls.
C10_ClockSyncCount ==
    [][/\ ((LookForTime /\ ret'.val) => rtcCalls' = rtcCalls + 1)
       /\ ((LookForTime /\ ~ret'.val) => rtcCalls' = rtcCalls)
       /\ (~LookForTime => rtcCalls' = rtcCalls)
       /\ rtcCalls' = timeOk']_vars

\* two clock syncs, then a fix accepted without a third
C10_Witness ==
    /\ rtcCalls = 2 /\ timeOk = 2
    /\ ret = [op |-> "lookForLocation", val |-> TRUE]

\* C11: whileIdle returns true exactly when at least one byte it fed to the
\* parser in that call made encode return true; it returns false when it
\* fed none or none completed a field, and a true from an earlier byte is
\* kept when later bytes return false.
C11_WhileIdleResult ==
    [][WhileIdleReturn => (ret'.val = encTrue)]_vars

\* whileIdle has returned true with the buffer drained and a time decoded
C11_Witness ==
    /\ ret = [op |-> "whileIdle", val |-> TRUE]
    /\ pc = "idle"
    /\ serial = <<>>
    /\ reader.time.valid /\ ~reader.date.valid

\* C12 as stated: every whileIdle call terminates, also when the transport
\* keeps receiving bytes while the drain loop is running.
C12_AlwaysTerminates ==
    (pc = "drain") ~> (pc = "idle")

\* C12 amended: a whileIdle call terminates whenever bytes stop arriving
\* during it (the loop has no iteration bound of its own); each iteration
\* takes the oldest buffered byte out and feeds that byte, nothing else
\* removes or reorders bytes, and on return the buffer is empty.
C12_DrainsInOrder ==
    /\ ([]<><<Receive>>_vars \/ ((pc = "drain") ~> (pc = "idle")))
    /\ [][WhileIdleRead(FeedBasic) =>
            (c' = Head(serial) /\ serial' = Tail(serial))]_vars
    /\ [][serial' # serial =>
            \/ WhileIdleRead(FeedBasic)
            \/ \E b \in Bytes : serial' = Append(serial, b)]_vars
    /\ [][WhileIdleReturn => (Len(serial) = 0 /\ Len(serial') = 0)]_vars

\* whileIdle has returned after feeding the sentences of a whole solution
C12_Witness ==
    /\ ret.op = "whileIdle"
    /\ pc = "idle"
    /\ Len(serial) = 0
    /\ reader.location.valid /\ reader.date.valid /\ reader.location.updated

C14_IndicatorsCaptured ==
    [][LookForLocation =>
          /\ fixQual' = reader.fixQuality
          /\ (customFields =>
                fixType' = IF reader.gsafixtype.term = <<"3">> THEN 3
                           ELSE IF reader.gsafixtype.term = <<"2">> THEN 2
                           ELSE 0)
          /\ (~customFields => fixType' = fixType)]_vars

\* a rejected call has captured quality 5 and a 2D fix type that is stale
C14_Witness ==
    /\ ret = [op |-> "lookForLocation", val |-> FALSE]
    /\ customFields
    /\ fixQual = 5 /\ reader.fixQuality = 5
    /\ fixType = 2 /\ reader.gsafixtype.term = <<"2">>
    /\ age(reader.gsafixtype) >= 300

\* C15: no location reading is committed twice: a lookForLocation call
\* made while the location field is not updated returns false, an accepted
\* call leaves the field not updated, and only the parser decoding a
\* location makes it updated again.
C15_NoRecommit ==
    [][/\ ((LookForLocation /\ ~reader.location.updated) => ~ret'.val)
       /\ (Accepted => (reader.location.updated /\ ~reader'.location.updated))
       /\ ((~reader.location.updated /\ reader'.location.updated) =>
              (WhileIdleRead(FeedGate) /\ reader'.location.age = 0))]_vars

\* the reading of the accepted fix was offered again and turned down at
\* the novelty step, everything else passing
C15_Witness ==
    /\ ret = [op |-> "lookForLocation", val |-> FALSE]
    /\ pc = "idle"
    /\ lastFix = [accepted |-> TRUE, lat |-> reader.location.lat,
                  lng |-> reader.location.lng]
    /\ ~reader.location.updated
    /\ outcome(reader, reader.fixQuality, captureFixType(reader, fixType)) = "NoNewData"
    /\ computeDop(reader) # 0

\* C16: after every lookForLocation call that returns true, latitude and
\* longitude are toDegInt of the parser's current latitude and longitude,
\* geoidal_height is the parser's geoid height in (whole) meters, and
\* altitude is the parser's altitude in meters plus geoidal_height with
\* the altitude-above-ellipsoid flag on, the altitude in meters alone with
\* it off.
C16_CommittedPosition ==
    [][Accepted =>
          /\ latitude' = toDegInt(reader.location.lat)
          /\ longitude' = toDegInt(reader.location.lng)
          /\ geoidal_height' = TruncDiv(reader.geoidHeight, 100)
          /\ altitude' = IF altitudeHAE
                         THEN TruncDiv(reader.altitude + 100 * geoidal_height', 100)
                         ELSE TruncDiv(reader.altitude, 100)]_vars

\* a fix at altitude -1.50 m with geoid height 10 m stored above the ellipsoid
C16_Witness ==
    /\ ret = [op |-> "lookForLocation", val |-> TRUE]
    /\ altitudeHAE
    /\ reader.altitude = -150 /\ reader.geoidHeight = 1000
    /\ altitude = 8 /\ geoidal_height = 10
    /\ latitude = -10000001 /\ longitude = 0

\* C17: starting from a zeroed fix state, the stored latitude is 0 exactly
\* when no lookForLocation call has yet returned true; after a fix has been
\* accepted the stored latitude is never 0, and the stored latitude and
\* longitude are the converted coordinates of the most recently accepted
\* fix.
C17_LatitudeTracksLastFix ==
    /\ (latitude = 0) <=> ~lastFix.accepted
    /\ lastFix.accepted =>
          /\ latitude = toDegInt(lastFix.lat)
          /\ longitude = toDegInt(lastFix.lng)

\* a second fix was accepted, and a later reading whose latitude converts
\* to 0 has been read and rejected
C17_Witness ==
    /\ ret = [op |-> "lookForLocation", val |-> FALSE]
    /\ lastFix = [accepted |-> TRUE, lat |-> LatS, lng |-> LngZero]
    /\ reader.location.lat = LatTiny /\ ~reader.location.updated
    /\ latitude = -10000001 /\ longitude = 0

\* C18: lookForLocation clears the location's updated flag exactly when
\* the call passes the lock, staleness and novelty gates: a call rejected
\* at the lock or staleness step leaves the flag as it was, a call
\* rejected at the zero-latitude or zero-DOP step has cleared it, and from
\* then on every call returns false until the parser decodes a new
\* location, whatever the DOP has become.
C18_FlagConsumption ==
    [][/\ LookForLocation =>
            LET passes == /\ hasLock(fixQual', fixType')
                          /\ solutionFresh(reader)
                          /\ reader.location.updated
            IN  /\ reader'.location.updated = (reader.location.updated /\ ~passes)
                /\ reader'.location.lat = reader.location.lat
                /\ reader'.location.age = reader.location.age
       /\ (LookForLocation /\ ~reader.location.updated) =>
            (~ret'.val /\ ~reader'.location.updated)
       /\ (~reader.location.updated /\ reader'.location.updated) =>
            (pc = "drain" /\ encTrue')]_vars

\* no fix was ever accepted, yet the flag of the current, non-zero reading
\* is gone: a zero-DOP rejection consumed it, and with the DOP now non-zero
\* and lock and freshness in place the next call still finds nothing new
C18_Witness ==
    /\ ret = [op |-> "lookForLocation", val |-> FALSE] /\ pc = "idle"
    /\ lastFix = NoFix /\ latitude = 0
    /\ reader.location.valid /\ reader.location.lat = LatN
    /\ ~reader.location.updated
    /\ hasLock(reader.fixQuality, captureFixType(reader, fixType))
    /\ solutionFresh(reader)
    /\ computeDop(reader) # 0

====
